---- MODULE Spec2Model ----
(***************************************************************************)
(* Model of the uploader (src/app.py): inventory of a source tree, the     *)
(* first-fit-decreasing partitioner split_files, the master / part         *)
(* manifests and the per-part pipeline archive -> hash -> manifest ->      *)
(* transfer -> remote verify, as driven by cli_main and GUIApp._upload.    *)
(* Sizes are counted in GiB, so the ceiling 150 * 1024**3 bytes is 150.    *)
(***************************************************************************)
EXTENDS Integers, Sequences, FiniteSets, TLC

\* ------------------------------------------------------------------ bounds
MaxFiles == 3
Sizes == {0, 20, 90, 100, 150, 200}
\* answers to the destination prompt; the run never inspects the string
Dests == {"incoming"}
Modes == {"cli", "gui"}
Digests == {<<"a", "b">>, <<"a", "c">>}
Whitespace == {"\n", " "}
\* what the remote shell pipeline can print: a digest line, or nothing at
\* all when sha256sum itself fails (cut still exits 0)
RemoteOutputs == {d \o <<"\n">> : d \in Digests} \cup {<<>>}

\* default ceiling of split_files and of the fast-path test, in GiB
max_size == 150

\* ------------------------------------------------------------------ state
VARIABLES
    mode,           \* front end running the pipeline
    tree,           \* regular files of the source tree, in walk order
    pc,             \* position of the run
    total_size,     \* result of get_dir_size
    files_list,     \* result of collect_files
    sorted_files,   \* files_list local of split_files after sorting
    bins,           \* bins of split_files
    k,              \* index of the next file split_files places
    warnings,       \* relpaths for which split_files printed the warning
    parts,          \* parts of the run
    parts_info,     \* in-memory list of PartInfo dicts
    master_log,     \* every record written to <upload_name>_master.json
    part_manifests, \* every record written to a <tar_name>.json
    i,              \* loop variable of the pipeline loop
    step,           \* next statement of the loop body
    sha,            \* local hash of the current archive
    remote_sha,     \* remote_sha local of the last verify_upload that read one
    pstate,         \* pipeline state of every part
    log,            \* calls made so far: op, part, ok (for op "master",
                    \* part is the index of the record in master_log)
    error,          \* exception that stopped the run and how it surfaced
    relpath,        \* relative path of a file create_part_manifest lists
    file_entry,     \* the 'files' entries create_part_manifest built for it
    upload_name,    \* the Upload Name field of the GUI form
    workers         \* the threads started by start_upload, in start order

\* the state of one run of the pipeline
run_vars == <<mode, tree, pc, total_size, files_list, sorted_files, bins, k,
              warnings, parts, parts_info, master_log, part_manifests, i,
              step, sha, remote_sha, pstate, log, error>>

\* the state of the manifest-entry builder and of the GUI form
entry_vars == <<relpath, file_entry>>
gui_vars == <<upload_name, workers>>

vars == <<run_vars, entry_vars, gui_vars>>

\* ----------------------------------------------------------- pure helpers
RECURSIVE SumSizes(_)
SumSizes(fs) == IF fs = <<>> THEN 0 ELSE Head(fs).sz + SumSizes(Tail(fs))

\* get_dir_size: recursive sum of st_size over the regular files of the tree
get_dir_size(path) == SumSizes(path)

\* collect_files: one (relpath, abspath, size) triple per file, walk order;
\* the relative path is the file's identity
collect_files(path) == path

\* position at which a stable descending sort inserts f into an already
\* sorted list: after every element whose size is >= f.sz
RECURSIVE InsertDesc_unstable(_, _)
InsertDesc_unstable(s, f) ==
    IF s = <<>> THEN <<f>>
    ELSE IF Head(s).sz > f.sz THEN <<Head(s)>> \o InsertDesc_unstable(Tail(s), f)
    ELSE <<f>> \o s

RECURSIVE InsertDesc(_, _)
InsertDesc(s, f) ==
    IF s = <<>> THEN <<f>>
    ELSE IF Head(s).sz >= f.sz THEN <<Head(s)>> \o InsertDesc(Tail(s), f)
    ELSE <<f>> \o s

\* sorted(files_list, key=lambda x: x[2], reverse=True)  (stable)
RECURSIVE SortedDesc(_)
SortedDesc(fs) ==
    IF fs = <<>> THEN <<>>
    ELSE InsertDesc(SortedDesc(SubSeq(fs, 1, Len(fs) - 1)), fs[Len(fs)])

\* the fast-path test of cli_main / _upload: total_size <= 150 * 1024**3
FastPath_strict(total) == total < max_size
FastPath(total) == total <= max_size

\* the test of the inner loop of split_files
Fits_ignoring_file(b, sz) == SumSizes(b) <= max_size
Fits(b, sz) == SumSizes(b) + sz <= max_size

\* the test guarding the warning of split_files
Oversize_inclusive(sz) == sz >= max_size
Oversize(sz) == sz > max_size

\* the scan keeping the last bin that fits instead of stopping at the first
FirstFit_last(bs, sz) ==
    IF \E j \in 1..Len(bs) : Fits(bs[j], sz)
    THEN CHOOSE j \in 1..Len(bs) :
            Fits(bs[j], sz) /\ \A h \in (j + 1)..Len(bs) : ~Fits(bs[h], sz)
    ELSE 0

\* index of the first bin that takes a file of size sz, 0 when none does
FirstFit(bs, sz) ==
    IF \E j \in 1..Len(bs) : Fits(bs[j], sz)
    THEN CHOOSE j \in 1..Len(bs) :
            Fits(bs[j], sz) /\ \A h \in 1..(j - 1) : ~Fits(bs[h], sz)
    ELSE 0

\* the outer loop leaving out a file that fits nowhere and is oversize
PlaceFile_lossy(bs, f) ==
    LET j == FirstFit(bs, f.sz) IN
    IF j > 0 THEN [bs EXCEPT ![j] = Append(@, f)]
    ELSE IF Oversize(f.sz) THEN bs
    ELSE Append(bs, <<f>>)

\* one iteration of the outer loop of split_files
PlaceFile(bs, f) ==
    LET j == FirstFit(bs, f.sz) IN
    IF j > 0 THEN [bs EXCEPT ![j] = Append(@, f)]
    ELSE Append(bs, <<f>>)

\* .decode().strip() of the remote output
RECURSIVE LStrip(_)
LStrip(s) == IF s # <<>> /\ Head(s) \in Whitespace THEN LStrip(Tail(s)) ELSE s
RECURSIVE RStrip(_)
RStrip(s) ==
    IF s # <<>> /\ s[Len(s)] \in Whitespace
    THEN RStrip(SubSeq(s, 1, Len(s) - 1)) ELSE s
Strip(s) == RStrip(LStrip(s))

\* the comparison of verify_upload: remote_sha != sha256
DigestMismatch_prefix(r, sha256) ==
    IF r = <<>> \/ sha256 = <<>> THEN r # sha256 ELSE Head(r) # Head(sha256)
DigestMismatch(r, sha256) == r # sha256

tar_name_of(idx) == <<"part", idx, "tar.gz">>
json_path_of(t) == <<t, "json">>

\* the dict appended to parts_info by the prompt loop
PartInfo(idx, dest, part) ==
    [part_id |-> idx, destination |-> dest,
     total_size |-> SumSizes(part), file_count |-> Len(part)]

\* dest_info.update({'tar_file': ..., 'manifest': ...})
WithArtifacts(info, t, m) == [tar_file |-> t, manifest |-> m] @@ info

RECURSIVE SumField(_, _)
SumField(ps, fld) ==
    IF ps = <<>> THEN 0 ELSE Head(ps)[fld] + SumField(Tail(ps), fld)

\* update_master_manifest adding to the totals of the record already stored
update_master_manifest_merging(infos) ==
    LET old == IF master_log = <<>>
               THEN [total_size |-> 0, total_files |-> 0]
               ELSE master_log[Len(master_log)] IN
    [parts |-> infos,
     total_size |-> old.total_size + SumField(infos, "total_size"),
     total_files |-> old.total_files + SumField(infos, "file_count")]

\* the record update_master_manifest dumps
update_master_manifest(infos) ==
    [parts |-> infos,
     total_size |-> SumField(infos, "total_size"),
     total_files |-> SumField(infos, "file_count")]

\* create_part_manifest numbering the parts from 0
part_manifest_zero_based(part, t, sha256, idx) ==
    [part_id |-> idx - 1, tar_file |-> t, sha256 |-> sha256,
     files |-> [n \in 1..Len(part) |-> [relpath |-> part[n].rel, size |-> part[n].sz]],
     total_size |-> SumSizes(part), file_count |-> Len(part)]

\* the record create_part_manifest dumps
part_manifest(part, t, sha256, idx) ==
    [part_id |-> idx, tar_file |-> t, sha256 |-> sha256,
     files |-> [n \in 1..Len(part) |-> [relpath |-> part[n].rel, size |-> part[n].sz]],
     total_size |-> SumSizes(part), file_count |-> Len(part)]

RECURSIVE Trees(_)
Trees(n) ==
    IF n = 0 THEN {<<>>}
    ELSE LET prev == Trees(n - 1) IN
         prev \cup {Append(t, [rel |-> Len(t) + 1, sz |-> s]) :
                      t \in {u \in prev : Len(u) = n - 1}, s \in Sizes}

\* a run that has not started
RunStart ==
    /\ pc = "inventory"
    /\ total_size = 0
    /\ files_list = <<>>
    /\ sorted_files = <<>>
    /\ bins = <<>>
    /\ k = 0
    /\ warnings = <<>>
    /\ parts = <<>>
    /\ parts_info = <<>>
    /\ master_log = <<>>
    /\ part_manifests = <<>>
    /\ i = 0
    /\ step = "none"
    /\ sha = <<>>
    /\ remote_sha = <<>>
    /\ pstate = <<>>
    /\ log = <<>>
    /\ error = [exc |-> "none", shown |-> "none"]

\* no manifest entry under construction
EntryIdle ==
    /\ relpath = <<>>
    /\ file_entry = <<>>

\* the form as __init__ leaves it, no thread started
GuiIdle ==
    /\ upload_name = ""
    /\ workers = <<>>

Init ==
    /\ mode \in Modes
    /\ tree \in Trees(MaxFiles)
    /\ RunStart
    /\ EntryIdle
    /\ GuiIdle

Logged(op, p, ok) == log' = Append(log, [op |-> op, part |-> p, ok |-> ok])

\* an exception leaves the loop and ends the run: uncaught in cli_main
\* (traceback, non-zero exit), caught by the except clause around the whole
\* of _upload in the GUI (messagebox.showerror)
Raise(exc) ==
    /\ pc' = "failed"
    /\ error' = [exc |-> exc,
                 shown |-> IF mode = "gui" THEN "showerror" ELSE "traceback"]

\* ------------------------------------------------------------ partitioning
Inventory ==
    /\ pc = "inventory"
    /\ total_size' = get_dir_size(tree)
    /\ files_list' = collect_files(tree)
    /\ pc' = "partition"
    /\ UNCHANGED <<entry_vars, gui_vars>>
    /\ UNCHANGED <<remote_sha, mode, tree, sorted_files, bins, k, warnings, parts,
                   parts_info, master_log, part_manifests, i, step, sha,
                   pstate, log, error>>

Partition ==
    /\ pc = "partition"
    /\ IF FastPath(total_size)
       THEN /\ parts' = <<files_list>>
            /\ pstate' = <<"PLANNED">>
            /\ pc' = "prompt"
            /\ UNCHANGED <<sorted_files, k>>
       ELSE /\ sorted_files' = SortedDesc(files_list)
            /\ k' = 1
            /\ pc' = "split"
            /\ UNCHANGED <<parts, pstate>>
    /\ UNCHANGED <<entry_vars, gui_vars>>
    /\ UNCHANGED <<remote_sha, mode, tree, total_size, files_list, bins, warnings,
                   parts_info, master_log, part_manifests, i, step, sha,
                   log, error>>

split_files_step ==
    /\ pc = "split"
    /\ k <= Len(sorted_files)
    /\ LET f == sorted_files[k] IN
       /\ bins' = PlaceFile(bins, f)
       /\ warnings' = IF FirstFit(bins, f.sz) = 0 /\ Oversize(f.sz)
                      THEN Append(warnings, f.rel) ELSE warnings
    /\ k' = k + 1
    /\ UNCHANGED <<entry_vars, gui_vars>>
    /\ UNCHANGED <<remote_sha, mode, tree, pc, total_size, files_list, sorted_files,
                   parts, parts_info, master_log, part_manifests, i, step,
                   sha, pstate, log, error>>

split_files_return ==
    /\ pc = "split"
    /\ k > Len(sorted_files)
    /\ parts' = bins
    /\ pstate' = [n \in 1..Len(bins) |-> "PLANNED"]
    /\ pc' = "prompt"
    /\ UNCHANGED <<entry_vars, gui_vars>>
    /\ UNCHANGED <<remote_sha, mode, tree, total_size, files_list, sorted_files, bins, k,
                   warnings, parts_info, master_log, part_manifests, i, step,
                   sha, log, error>>

\* ----------------------------------------------------------- destinations
PromptDest ==
    /\ pc = "prompt"
    /\ Len(parts_info) < Len(parts)
    /\ \E dest \in Dests :
         LET n == Len(parts_info) + 1 IN
         parts_info' = Append(parts_info, PartInfo(n, dest, parts[n]))
    /\ UNCHANGED <<entry_vars, gui_vars>>
    /\ UNCHANGED <<remote_sha, mode, tree, pc, total_size, files_list, sorted_files, bins,
                   k, warnings, parts, master_log, part_manifests, i, step,
                   sha, pstate, log, error>>

WriteMasterFirst ==
    /\ pc = "prompt"
    /\ Len(parts_info) = Len(parts)
    /\ master_log' = Append(master_log, update_master_manifest(parts_info))
    /\ Logged("master", Len(master_log) + 1, TRUE)
    /\ pc' = "pipeline"
    /\ i' = 1
    /\ step' = "archive"
    /\ UNCHANGED <<entry_vars, gui_vars>>
    /\ UNCHANGED <<remote_sha, mode, tree, total_size, files_list, sorted_files, bins, k,
                   warnings, parts, parts_info, part_manifests, sha, pstate,
                   error>>

\* ---------------------------------------------------------------- pipeline
\* create_tar followed directly by create_part_manifest
create_tar_skips_hash ==
    /\ pc = "pipeline"
    /\ step = "archive"
    /\ \E ok \in BOOLEAN :
         /\ Logged("archive", i, ok)
         /\ IF ok
            THEN /\ pstate' = [pstate EXCEPT ![i] = "ARCHIVED"]
                 /\ step' = "manifest"
                 /\ UNCHANGED <<pc, error>>
            ELSE /\ Raise("CalledProcessError")
                 /\ UNCHANGED <<pstate, step>>
    /\ UNCHANGED <<entry_vars, gui_vars>>
    /\ UNCHANGED <<remote_sha, mode, tree, total_size, files_list,
                   sorted_files, bins, k, warnings, parts, parts_info,
                   master_log, part_manifests, i, sha>>

\* create_tar(part, tar_name, source_dir): subprocess.run(..., check=True)
create_tar ==
    /\ pc = "pipeline"
    /\ step = "archive"
    /\ \E ok \in BOOLEAN :
         /\ Logged("archive", i, ok)
         /\ IF ok
            THEN /\ pstate' = [pstate EXCEPT ![i] = "ARCHIVED"]
                 /\ step' = "hash"
                 /\ UNCHANGED <<pc, error>>
            ELSE /\ Raise("CalledProcessError")
                 /\ UNCHANGED <<pstate, step>>
    /\ UNCHANGED <<entry_vars, gui_vars>>
    /\ UNCHANGED <<remote_sha, mode, tree, total_size, files_list, sorted_files, bins, k,
                   warnings, parts, parts_info, master_log, part_manifests,
                   i, sha>>

\* sha = compute_sha256(tar_name): reads the archive back from disk
compute_sha256 ==
    /\ pc = "pipeline"
    /\ step = "hash"
    /\ \/ \E d \in Digests :
            /\ Logged("hash", i, TRUE)
            /\ sha' = d
            /\ pstate' = [pstate EXCEPT ![i] = "HASHED"]
            /\ step' = "manifest"
            /\ UNCHANGED <<pc, error>>
       \/ /\ Logged("hash", i, FALSE)
          /\ Raise("OSError")
          /\ UNCHANGED <<sha, pstate, step>>
    /\ UNCHANGED <<entry_vars, gui_vars>>
    /\ UNCHANGED <<remote_sha, mode, tree, total_size, files_list, sorted_files, bins, k,
                   warnings, parts, parts_info, master_log, part_manifests, i>>

\* part_json = create_part_manifest(part, tar_name, sha, i)
create_part_manifest ==
    /\ pc = "pipeline"
    /\ step = "manifest"
    /\ \/ /\ Logged("manifest", i, TRUE)
          /\ part_manifests' =
                Append(part_manifests,
                       part_manifest(parts[i], tar_name_of(i), sha, i))
          /\ pstate' = [pstate EXCEPT ![i] = "MANIFESTED"]
          /\ step' = "update"
          /\ UNCHANGED <<pc, error>>
       \/ /\ Logged("manifest", i, FALSE)
          /\ Raise("OSError")
          /\ UNCHANGED <<part_manifests, pstate, step>>
    /\ UNCHANGED <<entry_vars, gui_vars>>
    /\ UNCHANGED <<remote_sha, mode, tree, total_size, files_list, sorted_files, bins, k,
                   warnings, parts, parts_info, master_log, i, sha>>

\* dest_info.update(...) followed by a write of the master manifest
UpdateDestInfo_saving ==
    /\ pc = "pipeline"
    /\ step = "update"
    /\ LET n == CHOOSE n \in 1..Len(parts_info) : parts_info[n].part_id = i IN
       parts_info' =
          [parts_info EXCEPT ![n] =
              WithArtifacts(@, tar_name_of(i), json_path_of(tar_name_of(i)))]
    /\ master_log' = Append(master_log, update_master_manifest(parts_info'))
    /\ Logged("master", Len(master_log) + 1, TRUE)
    /\ step' = "transfer"
    /\ UNCHANGED <<entry_vars, gui_vars>>
    /\ UNCHANGED <<remote_sha, mode, tree, pc, total_size, files_list,
                   sorted_files, bins, k, warnings, parts, part_manifests, i,
                   sha, pstate, error>>

\* dest_info = next(p for p in parts_info if p['part_id'] == i)  (cli)
\* dest_info = parts_info[i-1]                                   (gui)
\* dest_info.update({'tar_file': tar_name, 'manifest': part_json})
UpdateDestInfo ==
    /\ pc = "pipeline"
    /\ step = "update"
    /\ LET n == CHOOSE n \in 1..Len(parts_info) : parts_info[n].part_id = i IN
       parts_info' =
          [parts_info EXCEPT ![n] =
              WithArtifacts(@, tar_name_of(i), json_path_of(tar_name_of(i)))]
    /\ step' = "transfer"
    /\ UNCHANGED <<entry_vars, gui_vars>>
    /\ UNCHANGED <<remote_sha, mode, tree, pc, total_size, files_list, sorted_files, bins,
                   k, warnings, parts, master_log, part_manifests, i, sha,
                   pstate, log, error>>

\* rsync_upload with check=False: a failed transfer goes unnoticed
rsync_upload_unchecked ==
    /\ pc = "pipeline"
    /\ step = "transfer"
    /\ \E ok \in BOOLEAN :
         /\ Logged("transfer", i, ok)
         /\ pstate' = [pstate EXCEPT ![i] = "TRANSFERRED"]
         /\ step' = "verify"
         /\ UNCHANGED <<pc, error>>
    /\ UNCHANGED <<entry_vars, gui_vars>>
    /\ UNCHANGED <<remote_sha, mode, tree, total_size, files_list,
                   sorted_files, bins, k, warnings, parts, parts_info,
                   master_log, part_manifests, i, sha>>

\* rsync_upload that moves on to the next part and leaves the remote
\* verification of all but the last part out
rsync_upload_next_part ==
    /\ pc = "pipeline"
    /\ step = "transfer"
    /\ \E ok \in BOOLEAN :
         /\ Logged("transfer", i, ok)
         /\ IF ok
            THEN /\ pstate' = [pstate EXCEPT ![i] = "TRANSFERRED"]
                 /\ IF i < Len(parts)
                    THEN i' = i + 1 /\ step' = "archive"
                    ELSE i' = i /\ step' = "verify"
                 /\ UNCHANGED <<pc, error>>
            ELSE /\ Raise("CalledProcessError")
                 /\ UNCHANGED <<pstate, step, i>>
    /\ UNCHANGED <<entry_vars, gui_vars>>
    /\ UNCHANGED <<remote_sha, mode, tree, total_size, files_list,
                   sorted_files, bins, k, warnings, parts, parts_info,
                   master_log, part_manifests, sha>>

\* rsync_upload(tar_name, dest_info['destination']): check=True
rsync_upload ==
    /\ pc = "pipeline"
    /\ step = "transfer"
    /\ \E ok \in BOOLEAN :
         /\ Logged("transfer", i, ok)
         /\ IF ok
            THEN /\ pstate' = [pstate EXCEPT ![i] = "TRANSFERRED"]
                 /\ step' = "verify"
                 /\ UNCHANGED <<pc, error>>
            ELSE /\ Raise("CalledProcessError")
                 /\ UNCHANGED <<pstate, step>>
    /\ UNCHANGED <<entry_vars, gui_vars>>
    /\ UNCHANGED <<remote_sha, mode, tree, total_size, files_list, sorted_files, bins, k,
                   warnings, parts, parts_info, master_log, part_manifests,
                   i, sha>>

\* the loop header after a part is verified: next part, or leave the loop
LoopNext ==
    IF i < Len(parts)
    THEN /\ i' = i + 1
         /\ step' = "archive"
         /\ pc' = pc
    ELSE /\ i' = i
         /\ step' = "none"
         /\ pc' = "final"

\* verify_upload(tar_name, dest_info['destination'], sha), then the print
verify_upload ==
    /\ pc = "pipeline"
    /\ step = "verify"
    /\ \/ \* ssh exits non-zero: check_output raises
          /\ Logged("verify", i, FALSE)
          /\ Raise("CalledProcessError")
          /\ UNCHANGED <<pstate, step, i, remote_sha>>
       \/ \E out \in RemoteOutputs :
            /\ remote_sha' = Strip(out)
            /\ IF DigestMismatch(remote_sha', sha)
               THEN /\ Logged("verify", i, FALSE)
                    /\ Raise("ValueError")
                    /\ UNCHANGED <<pstate, step, i>>
               ELSE /\ Logged("verify", i, TRUE)
                    /\ pstate' = [pstate EXCEPT ![i] = "VERIFIED"]
                    /\ LoopNext
                    /\ error' = error
    /\ UNCHANGED <<entry_vars, gui_vars>>
    /\ UNCHANGED <<mode, tree, total_size, files_list, sorted_files, bins, k,
                   warnings, parts, parts_info, master_log, part_manifests,
                   sha>>

\* the run ending after the loop without the closing manifest write
WriteMasterFinal_skipped ==
    /\ pc = "final"
    /\ pc' = "done"
    /\ UNCHANGED <<entry_vars, gui_vars>>
    /\ UNCHANGED <<remote_sha, mode, tree, total_size, files_list,
                   sorted_files, bins, k, warnings, parts, parts_info,
                   master_log, part_manifests, i, step, sha, pstate, log,
                   error>>

\* update_master_manifest(...) after the loop, then the success message
WriteMasterFinal ==
    /\ pc = "final"
    /\ master_log' = Append(master_log, update_master_manifest(parts_info))
    /\ Logged("master", Len(master_log) + 1, TRUE)
    /\ pc' = "done"
    /\ UNCHANGED <<entry_vars, gui_vars>>
    /\ UNCHANGED <<remote_sha, mode, tree, total_size, files_list, sorted_files, bins, k,
                   warnings, parts, parts_info, part_manifests, i, step, sha,
                   pstate, error>>

Next == \/ Inventory
        \/ Partition
        \/ split_files_step
        \/ split_files_return
        \/ PromptDest
        \/ WriteMasterFirst
        \/ create_tar
        \/ compute_sha256
        \/ create_part_manifest
        \/ UpdateDestInfo
        \/ rsync_upload
        \/ verify_upload
        \/ WriteMasterFinal

Spec == Init /\ [][Next]_vars

\* the run is one sequential thread of control and every collaborator call
\* returns: a run that can take a step eventually takes one
SpecFair == Init /\ [][Next]_vars /\ WF_vars(Next)

\* ------------------------------------------------------- manifest entries
MaxPathLen == 4
PathChars == {"a", "B", ".", "/"}

RECURSIVE Strings(_)
Strings(n) ==
    IF n = 0 THEN {<<>>}
    ELSE LET prev == Strings(n - 1) IN
         prev \cup {Append(t, c) : t \in {u \in prev : Len(u) = n - 1},
                                   c \in PathChars}

\* what os.path.relpath returns for a file below the base: components
\* joined by single separators, none at either end
Relpaths ==
    {p \in Strings(MaxPathLen) :
        /\ p # <<>>
        /\ p[1] # "/" /\ p[Len(p)] # "/"
        /\ \A n \in 1..(Len(p) - 1) : ~(p[n] = "/" /\ p[n + 1] = "/")}

\* str.rfind, 1-based: 0 when the character does not occur
rfind(p, c) ==
    IF \E n \in 1..Len(p) : p[n] = c
    THEN CHOOSE n \in 1..Len(p) : p[n] = c /\ \A h \in (n + 1)..Len(p) : p[h] # c
    ELSE 0

\* os.path.splitext: the extension starts at the last dot of the last
\* component, unless only dots precede it in that component
splitext(p) ==
    LET sepIndex == rfind(p, "/")
        dotIndex == rfind(p, ".")
    IN  IF /\ dotIndex > sepIndex
           /\ \E n \in (sepIndex + 1)..(dotIndex - 1) : p[n] # "."
        THEN <<SubSeq(p, 1, dotIndex - 1), SubSeq(p, dotIndex, Len(p))>>
        ELSE <<p, <<>>>>

\* os.path.splitext(rel)[1][1:]
filetype_of(rel) ==
    LET ext == splitext(rel)[2] IN
    IF ext = <<>> THEN <<>> ELSE Tail(ext)

\* the dict create_part_manifest builds for one file (size and mtime left out)
build_file_entry ==
    /\ relpath # <<>>
    /\ file_entry = <<>>
    /\ file_entry' = <<[relpath |-> relpath, filetype |-> filetype_of(relpath)]>>
    /\ UNCHANGED <<relpath, run_vars, gui_vars>>

InitFiletype ==
    /\ mode = "cli"
    /\ tree = <<>>
    /\ RunStart
    /\ GuiIdle
    /\ relpath \in Relpaths
    /\ file_entry = <<>>

NextFiletype == build_file_entry

SpecFiletype == InitFiletype /\ [][NextFiletype]_vars

\* ---------------------------------------------------------- GUI front end
MaxWorkers == 2
MaxGuiParts == 2
Names == {"u1", "u2"}

\* the statements of _upload that touch a local file or the remote host
FileSteps == {"master_first", "archive", "hash", "manifest", "transfer",
              "verify", "master_final"}

\* the user types into the Upload Name entry
EditUploadName ==
    /\ \E n \in Names : n # upload_name /\ upload_name' = n
    /\ UNCHANGED <<workers, run_vars, entry_vars>>

\* start_upload: Thread(target=self._upload).start(), on every press
start_upload ==
    /\ Len(workers) < MaxWorkers
    /\ workers' = Append(workers, [name |-> "", nparts |-> 0, i |-> 0,
                                   step |-> "start", busy |-> FALSE])
    /\ UNCHANGED <<upload_name, run_vars, entry_vars>>

\* _upload up to the first manifest write: reads the form, sizes and
\* partitions the source, asks for the destinations
worker_read_form ==
    /\ \E w \in 1..Len(workers) :
         /\ workers[w].step = "start"
         /\ \E np \in 1..MaxGuiParts :
              workers' = [workers EXCEPT ![w].name = upload_name,
                                         ![w].nparts = np,
                                         ![w].step = "master_first"]
    /\ UNCHANGED <<upload_name, run_vars, entry_vars>>

\* a thread enters one of the calls of _upload
worker_begin_step ==
    /\ \E w \in 1..Len(workers) :
         /\ workers[w].step \in FileSteps
         /\ ~workers[w].busy
         /\ workers' = [workers EXCEPT ![w].busy = TRUE]
    /\ UNCHANGED <<upload_name, run_vars, entry_vars>>

\* the statement after the one a thread is in
StepAfter(wk) ==
    CASE wk.step = "master_first" -> [wk EXCEPT !.i = 1, !.step = "archive"]
      [] wk.step = "archive"      -> [wk EXCEPT !.step = "hash"]
      [] wk.step = "hash"         -> [wk EXCEPT !.step = "manifest"]
      [] wk.step = "manifest"     -> [wk EXCEPT !.step = "transfer"]
      [] wk.step = "transfer"     -> [wk EXCEPT !.step = "verify"]
      [] wk.step = "verify"       ->
            IF wk.i < wk.nparts
            THEN [wk EXCEPT !.i = wk.i + 1, !.step = "archive"]
            ELSE [wk EXCEPT !.step = "master_final"]
      [] wk.step = "master_final" -> [wk EXCEPT !.step = "done"]

\* the call returns, or raises into the except clause of _upload
worker_end_step ==
    /\ \E w \in 1..Len(workers) :
         /\ workers[w].busy
         /\ \E ok \in BOOLEAN :
              /\ (workers[w].step \in {"master_first", "master_final"}) => ok
              /\ workers' =
                    [workers EXCEPT ![w] =
                        IF ok THEN [StepAfter(@) EXCEPT !.busy = FALSE]
                        ELSE [@ EXCEPT !.step = "failed", !.busy = FALSE]]
    /\ UNCHANGED <<upload_name, run_vars, entry_vars>>

InitGUI ==
    /\ mode = "gui"
    /\ tree = <<>>
    /\ RunStart
    /\ EntryIdle
    /\ GuiIdle

NextGUI == \/ EditUploadName
           \/ start_upload
           \/ worker_read_form
           \/ worker_begin_step
           \/ worker_end_step

SpecGUI == InitGUI /\ [][NextGUI]_vars

TypeOK ==
    /\ pc \in {"inventory", "partition", "split", "prompt", "pipeline",
               "final", "done", "failed"}
    /\ Len(parts_info) <= Len(parts)
    /\ Len(master_log) <= 2

\* ------------------------------------------------------------ vocabulary
PipelineOps == <<"archive", "hash", "manifest", "transfer", "verify">>
PartStates ==
    <<"PLANNED", "ARCHIVED", "HASHED", "MANIFESTED", "TRANSFERRED", "VERIFIED">>

HasArtifacts(info) == {"tar_file", "manifest"} \subseteq DOMAIN info
NoArtifacts(info) == {"tar_file", "manifest"} \cap DOMAIN info = {}

\* the master manifest as it stands on disk
OnDisk == master_log[Len(master_log)]

Stopped == pc \in {"done", "failed"}

\* the pipeline calls made for part n, in the order they were made
OpsOf(n) ==
    LET ForPart(e) == e.op # "master" /\ e.part = n IN SelectSeq(log, ForPart)

OversizeSingleton(b) == Len(b) = 1 /\ b[1].sz > max_size

\* ------------------------------------------------------------------- C1
\* C1: between the moment part p becomes VERIFIED and the start of the
\* archive step of part p+1, a master-manifest write occurs whose record
\* carries tar_file and manifest for the parts 1..p.
C1_MasterRewrittenAfterEachPart ==
    \A a, b \in 1..Len(log) :
        ( /\ a < b
          /\ log[a].op = "verify" /\ log[a].ok
          /\ log[b].op = "archive" /\ log[b].part = log[a].part + 1 )
        => \E c \in (a + 1)..(b - 1) :
              /\ log[c].op = "master"
              /\ \A n \in 1..log[a].part :
                    HasArtifacts(master_log[log[c].part].parts[n])

\* ------------------------------------------------------------------- C2
\* C2: once the run has stopped, a part's PartInfo in the master manifest
\* on disk carries tar_file / manifest if and only if the part reached
\* VERIFIED.
C2_DiskRecordsExactlyVerified ==
    Stopped =>
        \A n \in 1..Len(parts) :
            HasArtifacts(OnDisk.parts[n]) <=> pstate[n] = "VERIFIED"

\* ------------------------------------------------------------------- C3
\* C3: a failed pipeline step is the last thing the run does: no step of
\* the failing part or of a later part follows it, no call is made twice
\* for the same part, and the parts after the failing one stay PLANNED.
C3_Halted ==
    /\ \A a \in 1..Len(log) : ~log[a].ok => (a = Len(log) /\ pc = "failed")
    /\ pc = "failed" => /\ Len(log) > 0
                        /\ ~log[Len(log)].ok
                        /\ log[Len(log)].part = i
                        /\ error.exc # "none"
                        /\ \A n \in (i + 1)..Len(parts) : pstate[n] = "PLANNED"
    /\ \A a, b \in 1..Len(log) :
          (a < b) => ~(log[a].op = log[b].op /\ log[a].part = log[b].part)

C3_FailureHaltsRun == []C3_Halted /\ [][pc # "failed"]_vars

\* a step of the first of several parts has failed
C3_Witness ==
    /\ pc = "failed"
    /\ i = 1
    /\ Len(parts) >= 2
    /\ log[Len(log)].op = "transfer"

\* ------------------------------------------------------------------- C4
\* C4: the calls made for a part are a prefix of archive, hash, manifest,
\* transfer, verify, each made only after the previous one succeeded; the
\* part's state is the one that prefix leads to, and its part manifest is
\* written exactly once, after the archive was created and hashed, with
\* that hash.
C4_FixedStepOrder ==
    \A n \in 1..Len(pstate) :
        LET ops == OpsOf(n)
            done == Cardinality({j \in 1..Len(ops) : ops[j].ok})
            written == {m \in 1..Len(part_manifests) :
                            part_manifests[m].part_id = n}
        IN  /\ Len(ops) <= Len(PipelineOps)
            /\ \A j \in 1..Len(ops) :
                  /\ ops[j].op = PipelineOps[j]
                  /\ (j < Len(ops)) => ops[j].ok
            /\ pstate[n] = PartStates[done + 1]
            /\ Cardinality(written) = (IF done >= 3 THEN 1 ELSE 0)
            /\ \A m \in written :
                  /\ part_manifests[m].sha256 \in Digests
                  /\ part_manifests[m].tar_file = tar_name_of(n)
                  /\ (n = i /\ pc \in {"pipeline", "failed"})
                        => part_manifests[m].sha256 = sha

\* the second part has gone through all five steps
C4_Witness ==
    /\ Len(pstate) >= 2
    /\ pstate[2] = "VERIFIED"
    /\ Len(part_manifests) = 2

\* ------------------------------------------------------------------- C5
\* C5: at most one part is strictly between PLANNED and VERIFIED, and a
\* part has left PLANNED only if the part before it is VERIFIED.
C5_OnePartAtATime ==
    /\ Cardinality({n \in 1..Len(pstate) :
                        pstate[n] \notin {"PLANNED", "VERIFIED"}}) <= 1
    /\ \A n \in 1..(Len(pstate) - 1) :
          pstate[n + 1] # "PLANNED" => pstate[n] = "VERIFIED"

\* the second part is in flight
C5_Witness ==
    /\ Len(pstate) >= 2
    /\ pstate[2] = "TRANSFERRED"

\* ------------------------------------------------------------------- C6
\* C6: a verify step that reads a remote digest different from the local
\* hash ends the run with an error and leaves the part short of VERIFIED;
\* a part becomes VERIFIED only in a verify step whose remote digest equals
\* the local hash.
C6_Step ==
    /\ (pc = "pipeline" /\ step = "verify") =>
          /\ (pstate'[i] = "VERIFIED" => remote_sha' = sha)
          /\ (remote_sha' # sha) =>
                /\ pc' = "failed"
                /\ error'.exc \in {"ValueError", "CalledProcessError"}
                /\ pstate' = pstate
          /\ (remote_sha' # remote_sha /\ remote_sha' # sha)
                => error'.exc = "ValueError"
    /\ \A n \in 1..Len(pstate) :
          (pstate[n] # "VERIFIED" /\ pstate'[n] = "VERIFIED")
             => (n = i /\ pc = "pipeline" /\ step = "verify")

C6_State ==
    /\ (pc = "failed" /\ log[Len(log)].op = "verify")
          => pstate[i] = "TRANSFERRED"
    /\ (Len(log) > 0 /\ log[Len(log)].op = "verify" /\ log[Len(log)].ok)
          => \E m \in 1..Len(part_manifests) :
                /\ part_manifests[m].part_id = log[Len(log)].part
                /\ part_manifests[m].sha256 = remote_sha

C6_VerifiedOnlyOnEqualDigest == []C6_State /\ [][C6_Step]_vars

\* the remote digest differs from the local one in one character
C6_Witness ==
    /\ pc = "failed"
    /\ error.exc = "ValueError"
    /\ remote_sha \in Digests
    /\ sha \in Digests
    /\ remote_sha # sha
    /\ Head(remote_sha) = Head(sha)

\* ------------------------------------------------------------------- C7
\* C7: when a pipeline step of a part has failed, the master manifest on
\* disk shows that part's PartInfo with neither tar_file nor manifest.
C7_FailedPartIncompleteOnDisk ==
    pc = "failed" =>
        /\ Len(master_log) > 0
        /\ NoArtifacts(OnDisk.parts[log[Len(log)].part])

\* the transfer failed after the in-memory PartInfo got both fields
C7_Witness ==
    /\ pc = "failed"
    /\ log[Len(log)].op \in {"transfer", "verify"}
    /\ HasArtifacts(parts_info[i])

C9_PartsWithinCeiling ==
    SumSizes(tree) > max_size =>
        /\ \A j \in 1..Len(bins) :
              SumSizes(bins[j]) <= max_size \/ OversizeSingleton(bins[j])
        /\ \A j \in 1..Len(parts) :
              SumSizes(parts[j]) <= max_size \/ OversizeSingleton(parts[j])

\* a returned partition with a shared part and an oversize singleton
C9_Witness ==
    /\ pc = "prompt"
    /\ \E j \in 1..Len(parts) : Len(parts[j]) >= 2 /\ SumSizes(parts[j]) > 0
    /\ \E j \in 1..Len(parts) : OversizeSingleton(parts[j])

\* ------------------------------------------------------------------ C10
\* C10: a file larger than the ceiling is alone in its bin: it opens a new
\* bin, no later file (not even an empty one) joins that bin, and the
\* warning is printed exactly when such a bin is opened.
C10_State ==
    /\ \A j \in 1..Len(bins) :
          (\E m \in 1..Len(bins[j]) : bins[j][m].sz > max_size)
             => Len(bins[j]) = 1
    /\ \A j \in 1..Len(parts) :
          (\E m \in 1..Len(parts[j]) : parts[j][m].sz > max_size)
             => Len(parts[j]) = 1
    /\ Len(warnings) =
          Cardinality({j \in 1..Len(bins) : OversizeSingleton(bins[j])})
    /\ \A w \in 1..Len(warnings) :
          \E j \in 1..Len(bins) : bins[j] = <<[rel |-> warnings[w], sz |-> tree[warnings[w]].sz]>>
                                  /\ OversizeSingleton(bins[j])

C10_Step ==
    (pc = "split" /\ k <= Len(sorted_files)) =>
        LET f == sorted_files[k] IN
        /\ f.sz > max_size => bins' = Append(bins, <<f>>)
        /\ \A j \in 1..Len(bins) :
              OversizeSingleton(bins[j]) => bins'[j] = bins[j]
        /\ IF Len(bins') = Len(bins) + 1 /\ f.sz > max_size
           THEN warnings' = Append(warnings, f.rel)
           ELSE warnings' = warnings

C10_OversizeAlone == []C10_State /\ [][C10_Step]_vars

\* an empty file was placed after an oversize bin had been opened
C10_Witness ==
    /\ pc = "prompt"
    /\ \E j \in 1..Len(parts) : OversizeSingleton(parts[j])
    /\ \E j \in 1..Len(parts) : \E m \in 1..Len(parts[j]) : parts[j][m].sz = 0
    /\ Len(warnings) >= 1

\* ------------------------------------------------------------------ C11
\* C11: of two files of equal size, the one earlier in the input list is
\* placed first: whenever the later one is in a bin, the earlier one is in
\* the same bin ahead of it or in a bin created earlier; the same holds in
\* the parts handed to the pipeline.
BinIndex(bs, rel) ==
    CHOOSE j \in 1..Len(bs) : \E m \in 1..Len(bs[j]) : bs[j][m].rel = rel
PosInBin(bs, rel) ==
    LET b == bs[BinIndex(bs, rel)] IN
    CHOOSE m \in 1..Len(b) : b[m].rel = rel
IsPlaced(bs, rel) ==
    \E j \in 1..Len(bs) : \E m \in 1..Len(bs[j]) : bs[j][m].rel = rel

TieBreakStable(bs) ==
    \A a, b \in 1..Len(tree) :
        (a < b /\ tree[a].sz = tree[b].sz /\ IsPlaced(bs, tree[b].rel))
        => /\ IsPlaced(bs, tree[a].rel)
           /\ \/ BinIndex(bs, tree[a].rel) < BinIndex(bs, tree[b].rel)
              \/ /\ BinIndex(bs, tree[a].rel) = BinIndex(bs, tree[b].rel)
                 /\ PosInBin(bs, tree[a].rel) < PosInBin(bs, tree[b].rel)

C11_StableTieBreak == TieBreakStable(bins) /\ TieBreakStable(parts)

\* the bin-packer separated two files of equal size and kept two together
C11_Witness ==
    /\ pc = "prompt"
    /\ bins # <<>>
    /\ \E a, b \in 1..Len(tree) :
          /\ a < b /\ tree[a].sz = tree[b].sz
          /\ BinIndex(parts, tree[a].rel) < BinIndex(parts, tree[b].rel)

\* ------------------------------------------------------------------ C12
\* C12: every master-manifest write stores a whole new record built from
\* the PartInfo list as it is at that moment, and the record's total_size
\* and total_files are the sums of total_size and file_count over the
\* parts that same record lists.
RECURSIVE FieldTotal(_, _, _)
FieldTotal(ps, fld, n) ==
    IF n = 0 THEN 0 ELSE ps[n][fld] + FieldTotal(ps, fld, n - 1)

C12_State ==
    \A w \in 1..Len(master_log) :
        LET rec == master_log[w] IN
        /\ DOMAIN rec = {"parts", "total_size", "total_files"}
        /\ rec.total_size = FieldTotal(rec.parts, "total_size", Len(rec.parts))
        /\ rec.total_files = FieldTotal(rec.parts, "file_count", Len(rec.parts))

C12_Step ==
    (master_log' # master_log) =>
        /\ Len(master_log') = Len(master_log) + 1
        /\ SubSeq(master_log', 1, Len(master_log)) = master_log
        /\ master_log'[Len(master_log')].parts = parts_info'

C12_LastWriteWins == []C12_State /\ [][C12_Step]_vars

\* the same file was written twice, with different PartInfo lists
C12_Witness ==
    /\ Len(master_log) = 2
    /\ Len(master_log[2].parts) >= 2
    /\ master_log[1].parts # master_log[2].parts
    /\ master_log[2].total_size > 0

\* ------------------------------------------------------------------ C13
\* C13: every part manifest written has total_size equal to the sum of the
\* sizes of the files it lists and file_count equal to the length of that
\* list; its part_id is the 1-based position of its part in partition
\* order, and it lists exactly that part's files.
RECURSIVE SizeTotal(_, _)
SizeTotal(fs, n) == IF n = 0 THEN 0 ELSE fs[n].size + SizeTotal(fs, n - 1)

C13_PartManifestConsistent ==
    \A m \in 1..Len(part_manifests) :
        LET pm == part_manifests[m] IN
        /\ pm.total_size = SizeTotal(pm.files, Len(pm.files))
        /\ pm.file_count = Len(pm.files)
        /\ pm.part_id = m
        /\ pm.part_id \in 1..Len(parts)
        /\ Len(pm.files) = Len(parts[m])
        /\ \A n \in 1..Len(pm.files) :
              /\ pm.files[n].relpath = parts[m][n].rel
              /\ pm.files[n].size = parts[m][n].sz

\* two part manifests written, one of them for a part of several files
C13_Witness ==
    /\ Len(part_manifests) >= 2
    /\ \E m \in 1..Len(part_manifests) :
          part_manifests[m].file_count >= 2 /\ part_manifests[m].total_size > 0

\* ------------------------------------------------------------------ C15
\* C15: split_files places the files in descending size order, each into
\* the lowest-numbered bin whose total plus the file's size stays within
\* the ceiling, and opens a new bin only when no bin takes the file; sizes
\* 100, 90, 20 under the ceiling 150 end as the parts {100, 20} and {90}.
RoomIn(bs, sz) == {j \in 1..Len(bs) : SumSizes(bs[j]) + sz <= max_size}

C15_State ==
    /\ \A a, b \in 1..Len(sorted_files) :
          a < b => sorted_files[a].sz >= sorted_files[b].sz
    /\ sorted_files # <<>> =>
          /\ Len(sorted_files) = Len(files_list)
          /\ \A n \in 1..Len(files_list) :
                \E m \in 1..Len(sorted_files) : sorted_files[m] = files_list[n]
    /\ ( /\ Len(tree) = 3
         /\ tree[1].sz = 100 /\ tree[2].sz = 90 /\ tree[3].sz = 20
         /\ pc \notin {"inventory", "partition", "split"} )
       => parts = << <<tree[1], tree[3]>>, <<tree[2]>> >>

C15_Step ==
    (pc = "split" /\ k <= Len(sorted_files)) =>
        LET f == sorted_files[k]
            room == RoomIn(bins, f.sz)
        IN  IF room = {}
            THEN bins' = Append(bins, <<f>>)
            ELSE LET j == CHOOSE j \in room : \A h \in room : j <= h IN
                 bins' = [bins EXCEPT ![j] = Append(@, f)]

C15_FirstFitDecreasing == []C15_State /\ [][C15_Step]_vars

\* the scenario 100, 90, 20 has been partitioned
C15_Witness ==
    /\ pc = "prompt"
    /\ Len(tree) = 3
    /\ tree[1].sz = 100 /\ tree[2].sz = 90 /\ tree[3].sz = 20
    /\ Len(parts) = 2

\* ------------------------------------------------------------------ C17
\* C17: a run is stopped with the integrity-mismatch error (the ValueError
\* of verify_upload) only when the verify step obtained a remote digest and
\* that digest differs from the local one; a failed transfer or a failed
\* remote command is never reported that way.
C17_MismatchDistinctFromTransport ==
    pc = "failed" =>
        LET last == log[Len(log)] IN
        /\ error.exc = "ValueError" =>
              /\ last.op = "verify"
              /\ remote_sha \in Digests
              /\ remote_sha # sha
        /\ last.op = "transfer" => error.exc = "CalledProcessError"

\* ------------------------------------------------------------------ C18
\* C18: the parts of a run are an exact partition of the inventory: every
\* file of the input list is in exactly one part, once; on the bin-packing
\* path no part is empty; and the first master manifest written has
\* total_size equal to the sum of all input sizes and total_files equal to
\* the number of input files.
Occurrences(ps, f) ==
    Cardinality({p \in (1..Len(ps)) \X (1..Len(tree)) :
                    p[2] <= Len(ps[p[1]]) /\ ps[p[1]][p[2]] = f})

RECURSIVE CountFiles(_)
CountFiles(ps) == IF ps = <<>> THEN 0 ELSE Len(Head(ps)) + CountFiles(Tail(ps))

C18_ExactPartition ==
    /\ pc = "split" => CountFiles(bins) = k - 1
    /\ pc \notin {"inventory", "partition", "split"} =>
          /\ \A n \in 1..Len(tree) : Occurrences(parts, tree[n]) = 1
          /\ CountFiles(parts) = Len(tree)
          /\ SumSizes(tree) > max_size =>
                \A j \in 1..Len(parts) : parts[j] # <<>>
    /\ Len(master_log) >= 1 =>
          /\ master_log[1].total_size = SumSizes(tree)
          /\ master_log[1].total_files = Len(tree)

\* three files in several parts, first master manifest on disk
C18_Witness ==
    /\ pc = "pipeline"
    /\ Len(tree) = 3
    /\ Len(parts) >= 2
    /\ \E j \in 1..Len(parts) : Len(parts[j]) >= 2
    /\ Len(master_log) = 1

\* ------------------------------------------------------------------ C19
\* C19: when every collaborator call returns, the run ends, and it ends in
\* one of two ways: every part VERIFIED and the closing master manifest,
\* listing tar_file and manifest for every part, written; or stopped at
\* the first failing step with no master manifest written after the
\* opening one.
C19_Success ==
    /\ pc = "done"
    /\ \A n \in 1..Len(parts) : pstate[n] = "VERIFIED"
    /\ Len(master_log) = 2
    /\ \A n \in 1..Len(parts) : HasArtifacts(OnDisk.parts[n])

C19_Failure ==
    /\ pc = "failed"
    /\ Len(master_log) = 1
    /\ Cardinality({a \in 1..Len(log) : ~log[a].ok}) = 1
    /\ ~log[Len(log)].ok
    /\ pstate[i] # "VERIFIED"

C19_Terminates == <>[](C19_Success \/ C19_Failure)

\* a run of several parts that went all the way
C19_Witness ==
    /\ C19_Success
    /\ Len(parts) >= 2

\* ------------------------------------------------------------------ C14
\* C14: the filetype of a manifest file entry is the final extension of the
\* relative path, lower-cased, without the leading dot, and empty for a
\* path without extension.
lower(c) == IF c = "B" THEN "b" ELSE c
LowerCased(str) == [n \in 1..Len(str) |-> lower(str[n])]

FinalExtension(p) ==
    LET ext == splitext(p)[2] IN
    IF ext = <<>> THEN <<>> ELSE SubSeq(ext, 2, Len(ext))

C14_FiletypeLowerCased ==
    file_entry # <<>> =>
        file_entry[1].filetype = LowerCased(FinalExtension(file_entry[1].relpath))

\* ------------------------------------------------------------------ C16
\* C16: at most one worker is executing pipeline steps for a given
\* upload_name, and no file of an upload (master manifest, archive, part
\* manifest) is written by one worker while another worker reads or writes
\* it.
Running(wk) == wk.step \notin {"start", "done", "failed"}

\* the file a worker has open in its current call, and whether it writes it
Access(wk) ==
    CASE wk.step \in {"master_first", "master_final"} ->
            [kind |-> "master", name |-> wk.name, part |-> 0, write |-> TRUE]
      [] wk.step = "archive" ->
            [kind |-> "tar", name |-> wk.name, part |-> wk.i, write |-> TRUE]
      [] wk.step \in {"hash", "transfer"} ->
            [kind |-> "tar", name |-> wk.name, part |-> wk.i, write |-> FALSE]
      [] wk.step = "manifest" ->
            [kind |-> "json", name |-> wk.name, part |-> wk.i, write |-> TRUE]
      [] OTHER ->
            [kind |-> "none", name |-> wk.name, part |-> wk.i, write |-> FALSE]

Conflict(a, b) ==
    /\ a.busy /\ b.busy
    /\ Access(a).kind # "none"
    /\ Access(a).kind = Access(b).kind
    /\ Access(a).name = Access(b).name
    /\ Access(a).part = Access(b).part
    /\ Access(a).write \/ Access(b).write

C16_SingleWorkerPerUpload ==
    \A a, b \in 1..Len(workers) :
        a # b =>
            /\ ~(/\ Running(workers[a]) /\ Running(workers[b])
                 /\ workers[a].name = workers[b].name)
            /\ ~Conflict(workers[a], workers[b])
====
